---- MODULE Spec2Model ----
(***************************************************************************)
(* Model of mastodon-analytics/src/main.py: class MastodonAnalytics.        *)
(*                                                                         *)
(* The specifications of this module:                                      *)
(*   SpecAgg    _process_chunk applied item by item to a list of items.    *)
(*   SpecMerge  the merge loops of _gather_results applied to a gathered   *)
(*              list of partition aggregates.                              *)
(*   SpecBatch  the batching of _split_and_process applied to a list of    *)
(*              records, for every batch window.                           *)
(*   SpecTop    the top-k selection of analyze applied to global           *)
(*              aggregates.                                                *)
(*   Spec       a whole run of analyze() on `size` MPI ranks over one      *)
(*              input file.                                                *)
(*   SpecFair   runs of Spec on small inputs, with fairness.               *)
(*                                                                         *)
(* Conventions.  A Python dict is a sequence of entries [k |-> key,        *)
(* v |-> value] in insertion order (the order heapq sees at lines 186-193).*)
(* Sentiment numbers are integers in units of 0.5, so 1.5 is 3 and -2.0 is *)
(* -4; float rounding is not modelled.  The strings "" and the hour NoHour *)
(* stand for Python's falsy '' / None.                                     *)
(***************************************************************************)
EXTENDS Integers, Sequences, FiniteSets, TLC

VARIABLES
    \* SpecAgg
    aggIn, agg, aggPrev, aggLog,
    \* SpecMerge
    gathered, all_user_sentiments, merged_hours, merged_users, mergePc, mergeIdx,
    \* Spec
    file, size, ranks, hours_sent,
    \* SpecBatch
    batch_in, batch_window, batch_w, batch_log,
    \* SpecTop
    happiest_hours, saddest_hours, happiest_users, saddest_users, selectPc

aggVars == <<aggIn, agg, aggPrev, aggLog>>

runVars == <<file, size, ranks, hours_sent>>

mergeVars == <<gathered, all_user_sentiments, merged_hours, merged_users, mergePc, mergeIdx>>

batchVars == <<batch_in, batch_window, batch_w, batch_log>>

topVars == <<happiest_hours, saddest_hours, happiest_users, saddest_users, selectPc>>

(***************************************************************************)
(* Bounds of the model.                                                    *)
(***************************************************************************)
MaxItems == 3
MaxParts == 3
MaxLines == 3
MaxWorkers == 3
MaxWindow == 3
\* keys of the global aggregate beyond the 5 a top list holds
MaxExtraKeys == 1
\* ijson reads the file buf_size bytes at a time (64 KiB by default); the
\* model scales it to the size of its files.
BufSize == 4

(***************************************************************************)
(* Program constants.                                                      *)
(***************************************************************************)
\* line 115: the batch window
BatchSize == 10000

(***************************************************************************)
(* Python dicts with insertion order.                                      *)
(***************************************************************************)
EmptyDict == <<>>

Keys(d) == {d[i].k : i \in 1..Len(d)}

Has(d, key) == \E i \in 1..Len(d) : d[i].k = key

Get(d, key) == d[CHOOSE i \in 1..Len(d) : d[i].k = key].v

\* d[key] = val: an existing key keeps its position, a new key is appended.
Put(d, key, val) ==
    IF Has(d, key)
    THEN [i \in 1..Len(d) |-> IF d[i].k = key THEN [k |-> key, v |-> val] ELSE d[i]]
    ELSE Append(d, [k |-> key, v |-> val])

\* Python's == on dicts: same keys, same values, order ignored.
DictEq(a, b) ==
    /\ Keys(a) = Keys(b)
    /\ \A key \in Keys(a) : Get(a, key) = Get(b, key)

(***************************************************************************)
(* Decoded JSON values, as far as _process_chunk looks at them.            *)
(*   created_at: st "absent", "str" (a string; iso says whether            *)
(*               datetime.fromisoformat accepts it after 'Z' -> '+00:00';  *)
(*               day/hh/mm are its date, hour and minute) or "other"       *)
(*               (a number, null, ...).                                    *)
(*   sentiment:  st "absent", "num" (value v) or "other" (not a number).   *)
(*   account:    st "absent", "map" (id and username; "" when the key is   *)
(*               missing or its value is falsy) or "other" (not a mapping).*)
(* An item of kind "other" is a top-level value that is not a mapping.     *)
(***************************************************************************)
NoCreatedAt == [st |-> "absent", iso |-> FALSE, day |-> 0, hh |-> 0, mm |-> 0]
BadCreatedAt == [st |-> "str", iso |-> FALSE, day |-> 0, hh |-> 0, mm |-> 0]
Stamp(day, hh, mm) == [st |-> "str", iso |-> TRUE, day |-> day, hh |-> hh, mm |-> mm]

NoSentiment == [st |-> "absent", v |-> 0]
BadSentiment == [st |-> "other", v |-> 0]
Num(v) == [st |-> "num", v |-> v]

NoAccount == [st |-> "absent", id |-> "", username |-> ""]
BadAccount == [st |-> "other", id |-> "", username |-> ""]
Account(id, username) == [st |-> "map", id |-> id, username |-> username]

Post(ca, sent, acct) == [kind |-> "dict", ca |-> ca, sent |-> sent, acct |-> acct]

\* {} : a mapping with none of the three keys.
EmptyItem == Post(NoCreatedAt, NoSentiment, NoAccount)

\* A bare string or number at top level.
BareValue == [kind |-> "other", ca |-> NoCreatedAt, sent |-> NoSentiment, acct |-> NoAccount]

(***************************************************************************)
(* _extract_hour (lines 35-49): '%Y-%m-%d %H:00' of the parsed timestamp,  *)
(* None (NoHour) when parsing raises.                                      *)
(***************************************************************************)
NoHour == [day |-> 0, hh |-> 0 - 1]

extract_hour(timestamp) ==
    IF timestamp.st = "str" /\ timestamp.iso
    THEN [day |-> timestamp.day, hh |-> timestamp.hh]
    ELSE NoHour

(***************************************************************************)
(* _process_chunk (lines 51-88), one iteration of `for item in chunk`.     *)
(* An aggregate is [hours, users, err]: self.hour_sentiment,               *)
(* self.user_sentiment, and the exception that left the method ("" none).  *)
(***************************************************************************)
EmptyAgg == [hours |-> EmptyDict, users |-> EmptyDict, err |-> ""]

\* line 60: not item or not isinstance(item, dict)
Malformed(item) == item.kind # "dict" \/ item = EmptyItem

\* lines 64-71: account.get raises when account is not a mapping; caught.
ExtractRaises(item) == item.acct.st = "other"

\* line 66: item.get('sentiment', 0)
SentimentOf(item) == IF item.sent.st = "absent" THEN Num(0) ELSE item.sent

\* line 74, the mutant skipping only when both are missing.
SkipEntryBoth(hour, user_id) == hour = NoHour /\ user_id = ""

\* line 74: not hour or not user_id
SkipEntry(hour, user_id) == hour = NoHour \/ user_id = ""

\* lines 82-88 without the `or ... ['username'] == ''` test of line 82.
UserUpdateKeepName(users, user_id, username, sentiment) ==
    IF ~Has(users, user_id)
    THEN Put(users, user_id, [username |-> username, sentiment |-> sentiment])
    ELSE Put(users, user_id,
             [Get(users, user_id) EXCEPT !.sentiment = @ + sentiment])

\* lines 82-88
UserUpdate(users, user_id, username, sentiment) ==
    IF ~Has(users, user_id) \/ Get(users, user_id).username = ""
    THEN Put(users, user_id, [username |-> username, sentiment |-> sentiment])
    ELSE Put(users, user_id,
             [Get(users, user_id) EXCEPT !.sentiment = @ + sentiment])

\* line 79: defaultdict(float) supplies 0.0 for a new hour.
HourValue(hours, hour) == IF Has(hours, hour) THEN Get(hours, hour) ELSE 0

process_item(a, item) ==
    IF Malformed(item) \/ ExtractRaises(item) THEN a
    ELSE LET hour == extract_hour(item.ca)
             sentiment == SentimentOf(item)
             user_id == item.acct.id
             username == item.acct.username
         IN  IF SkipEntry(hour, user_id) THEN a
             ELSE IF sentiment.st # "num"
             \* line 79 raises TypeError after __missing__ has stored 0.0
             THEN [a EXCEPT !.hours = Put(a.hours, hour, HourValue(a.hours, hour)),
                            !.err = "TypeError"]
             ELSE [a EXCEPT
                     !.hours = Put(a.hours, hour, HourValue(a.hours, hour) + sentiment.v),
                     !.users = UserUpdate(a.users, user_id, username, sentiment.v)]

\* The whole method: the loop stops at the first exception.
RECURSIVE process_chunk(_, _)
process_chunk(a, chunk) ==
    IF chunk = <<>> \/ a.err # "" THEN a
    ELSE process_chunk(process_item(a, Head(chunk)), Tail(chunk))

(***************************************************************************)
(* SpecAgg: _process_chunk driven with every list of up to MaxItems items  *)
(* of ItemPool.  aggLog is the list of items consumed so far and aggPrev   *)
(* the aggregate before the last one (history, for stating the claims).    *)
(***************************************************************************)
ItemPool ==
    { Post(Stamp(1, 0, 15), Num(3), Account("u1", "alice")),
      Post(Stamp(1, 0, 45), Num(0 - 4), Account("u1", "")),
      Post(Stamp(1, 1, 5), Num(6), Account("u2", "bob")),
      Post(Stamp(1, 1, 30), NoSentiment, Account("u1", "al")),
      Post(Stamp(1, 0, 50), Num(2), Account("", "carol")),
      Post(NoCreatedAt, Num(2), Account("u2", "bob")),
      Post(BadCreatedAt, Num(1), Account("u1", "alice")),
      Post(Stamp(1, 0, 20), Num(1), BadAccount),
      Post(Stamp(1, 1, 40), BadSentiment, Account("u2", "bob")),
      EmptyItem,
      BareValue }

RECURSIVE SeqsUpTo(_, _)
SeqsUpTo(S, n) ==
    IF n = 0 THEN {<<>>}
    ELSE LET shorter == SeqsUpTo(S, n - 1)
         IN  shorter \cup {Append(s, x) : s \in {t \in shorter : Len(t) = n - 1}, x \in S}

AggInput ==
    /\ aggIn \in SeqsUpTo(ItemPool, MaxItems)
    /\ agg = EmptyAgg
    /\ aggPrev = EmptyAgg
    /\ aggLog = <<>>

AggStep ==
    /\ aggIn # <<>>
    /\ agg.err = ""
    /\ agg' = process_item(agg, Head(aggIn))
    /\ aggPrev' = agg
    /\ aggLog' = Append(aggLog, Head(aggIn))
    /\ aggIn' = Tail(aggIn)
    /\ UNCHANGED <<mergeVars, runVars, batchVars, topVars>>


(***************************************************************************)
(* Claims about the aggregator, checked under SpecAgg.                     *)
(***************************************************************************)
Processed == aggLog # <<>>

LastItem == aggLog[Len(aggLog)]

\* A record of the data model: a mapping that is not empty.
IsRecord(item) == item.kind = "dict" /\ item # EmptyItem

\* Section 3 of the specification: created_at gives an hour and account.id
\* is present.
HasHour(item) == item.ca.st = "str" /\ item.ca.iso

HasUserId(item) == item.acct.st = "map" /\ item.acct.id # ""

ValidRecord(item) == IsRecord(item) /\ HasHour(item) /\ HasUserId(item)

\* The sentiment a valid record contributes: its number, 0 when omitted.
Contribution(item) == IF item.sent.st = "num" THEN item.sent.v ELSE 0

RECURSIVE SentimentSum(_, _)
SentimentSum(log, uid) ==
    IF log = <<>> THEN 0
    ELSE SentimentSum(Tail(log), uid)
         + (IF ValidRecord(Head(log)) /\ Head(log).acct.id = uid
            THEN Contribution(Head(log)) ELSE 0)

\* C4 (as claimed): in every state of the pass, each user id's stored
\* sentiment is the sum of the sentiments of all valid records with that id
\* processed so far, whatever their usernames and order.
C4_SentimentIsSumOfAllRecords ==
    agg.err = "" =>
        \A uid \in Keys(agg.users) :
            Get(agg.users, uid).sentiment = SentimentSum(aggLog, uid)

\* The case of C5: the last record processed was valid, numeric or without
\* sentiment, and its user id already had an entry.
ArrivedForKnownUser ==
    /\ Processed
    /\ ValidRecord(LastItem)
    /\ LastItem.sent.st # "other"
    /\ Has(aggPrev.users, LastItem.acct.id)

C6_InvalidRecordChangesNothing ==
    (Processed /\ IsRecord(LastItem) /\ (~HasHour(LastItem) \/ ~HasUserId(LastItem)))
        => agg = aggPrev

\* C6 witness: after some accumulation, a record with a valid hour and no
\* user id, and one with a user id and no hour, have each been processed.
C6_Witness ==
    /\ Len(aggLog) = 3
    /\ ValidRecord(aggLog[1])
    /\ HasHour(aggLog[2]) /\ aggLog[2].acct.st = "map" /\ aggLog[2].acct.id = ""
    /\ ~HasHour(aggLog[3]) /\ HasUserId(aggLog[3])
    /\ agg.hours # EmptyDict

\* C7 (as claimed): a valid record without sentiment is accumulated as 0:
\* its hour and user id are keys afterwards and every sum accumulated
\* before keeps its value.
C7_OmittedSentimentAddsZero ==
    (Processed /\ ValidRecord(LastItem) /\ LastItem.sent.st = "absent") =>
        /\ Has(agg.hours, extract_hour(LastItem.ca))
        /\ Has(agg.users, LastItem.acct.id)
        /\ \A h \in Keys(aggPrev.hours) : Get(agg.hours, h) = Get(aggPrev.hours, h)
        /\ \A u \in Keys(aggPrev.users) :
               Get(agg.users, u).sentiment = Get(aggPrev.users, u).sentiment

\* C15 (as claimed): whatever records _process_chunk has been given, a
\* bare value, a non-mapping account, an unparsable timestamp or a
\* non-numeric sentiment among them, no exception has left it, so the
\* records that follow are still processed.
C15_MalformedRecordNeverAborts == agg.err = ""

(***************************************************************************)
(* _gather_results, the merge at rank 0 (lines 151-167).                   *)
(***************************************************************************)
\* line 156: merged_hours[hour] += sentiment, on a defaultdict(float)
MergeHourEntry(merged, hour, sentiment) ==
    Put(merged, hour, HourValue(merged, hour) + sentiment)

\* lines 155-156, for one hour_dict
RECURSIVE MergeHourDict(_, _)
MergeHourDict(merged, hour_dict) ==
    IF hour_dict = <<>> THEN merged
    ELSE MergeHourDict(MergeHourEntry(merged, Head(hour_dict).k, Head(hour_dict).v),
                       Tail(hour_dict))

\* lines 162-165 with `=` in place of `+=` at line 165.
MergeUserEntryOverwrite(merged, user_id, data) ==
    IF ~Has(merged, user_id)
    THEN Put(merged, user_id, data)
    ELSE Put(merged, user_id, [Get(merged, user_id) EXCEPT !.sentiment = data.sentiment])

\* lines 162-165 with a rule that lets a later non-empty username fill an
\* empty one.
MergeUserEntryFillName(merged, user_id, data) ==
    IF ~Has(merged, user_id)
    THEN Put(merged, user_id, data)
    ELSE Put(merged, user_id,
             [username |-> IF Get(merged, user_id).username = ""
                           THEN data.username
                           ELSE Get(merged, user_id).username,
              sentiment |-> Get(merged, user_id).sentiment + data.sentiment])

\* lines 162-165
MergeUserEntry(merged, user_id, data) ==
    IF ~Has(merged, user_id)
    THEN Put(merged, user_id, data)
    ELSE Put(merged, user_id, [Get(merged, user_id) EXCEPT !.sentiment = @ + data.sentiment])

\* lines 161-165, for one user_dict
RECURSIVE MergeUserDict(_, _)
MergeUserDict(merged, user_dict) ==
    IF user_dict = <<>> THEN merged
    ELSE MergeUserDict(MergeUserEntry(merged, Head(user_dict).k, Head(user_dict).v),
                       Tail(user_dict))

\* Line 163 stores in merged_users the very dict object held by the
\* gathered list, so line 165 also changes that list: the entry of the
\* first dict holding user_id ends with the merged sentiment.
FirstHolder(all, user_id) ==
    CHOOSE i \in 1..Len(all) :
        /\ Has(all[i], user_id)
        /\ \A j \in 1..(i - 1) : ~Has(all[j], user_id)

AliasedWrites(all, idx, merged) ==
    [i \in 1..Len(all) |->
        IF i >= idx THEN all[i]
        ELSE [e \in 1..Len(all[i]) |->
                 IF FirstHolder(all, all[i][e].k) = i /\ Has(all[idx], all[i][e].k)
                 THEN [k |-> all[i][e].k, v |-> Get(merged, all[i][e].k)]
                 ELSE all[i][e]]]

(***************************************************************************)
(* SpecMerge: the merge applied to every list of 1..MaxParts partition     *)
(* aggregates, each one an aggregate _process_chunk produces from a list   *)
(* of PartChunks.  `gathered` is what the ranks delivered (never changed); *)
(* all_user_sentiments is the list object the loop of line 160 walks.      *)
(***************************************************************************)
PartChunks ==
    { <<>>,
      << Post(Stamp(1, 0, 15), Num(3), Account("u1", "alice")) >>,
      << Post(Stamp(1, 0, 45), Num(0 - 4), Account("u1", "")) >>,
      << Post(Stamp(1, 1, 5), Num(6), Account("u2", "bob")),
         Post(Stamp(1, 0, 45), Num(1), Account("u1", "al")) >>,
      << Post(Stamp(1, 2, 10), Num(0 - 2), Account("u3", "carol")),
         Post(Stamp(1, 1, 20), Num(5), Account("u2", "")) >> }

PartPool == {process_chunk(EmptyAgg, c) : c \in PartChunks}

RECURSIVE SeqsOfLen(_, _)
SeqsOfLen(S, n) ==
    IF n = 0 THEN {<<>>}
    ELSE {Append(s, x) : s \in SeqsOfLen(S, n - 1), x \in S}

UserDicts(g) == [i \in 1..Len(g) |-> g[i].users]

MergeInput ==
    /\ \E n \in 1..MaxParts : gathered \in SeqsOfLen(PartPool, n)
    /\ all_user_sentiments = UserDicts(gathered)
    /\ merged_hours = EmptyDict
    /\ merged_users = EmptyDict
    /\ mergePc = "hours"
    /\ mergeIdx = 1

\* lines 154-156: one hour_dict
MergeHoursStep ==
    /\ mergePc = "hours"
    /\ mergeIdx <= Len(gathered)
    /\ merged_hours' = MergeHourDict(merged_hours, gathered[mergeIdx].hours)
    /\ mergeIdx' = mergeIdx + 1
    /\ UNCHANGED <<gathered, all_user_sentiments, merged_users, mergePc, aggVars, runVars, batchVars, topVars>>

\* line 159
MergeHoursDone ==
    /\ mergePc = "hours"
    /\ mergeIdx > Len(gathered)
    /\ mergePc' = "users"
    /\ mergeIdx' = 1
    /\ UNCHANGED <<gathered, all_user_sentiments, merged_hours, merged_users, aggVars, runVars, batchVars, topVars>>

\* lines 160-165: one user_dict
MergeUsersStep ==
    /\ mergePc = "users"
    /\ mergeIdx <= Len(gathered)
    /\ merged_users' = MergeUserDict(merged_users, all_user_sentiments[mergeIdx])
    /\ all_user_sentiments' = AliasedWrites(all_user_sentiments, mergeIdx, merged_users')
    /\ mergeIdx' = mergeIdx + 1
    /\ UNCHANGED <<gathered, merged_hours, mergePc, aggVars, runVars, batchVars, topVars>>

\* line 167
MergeReturn ==
    /\ mergePc = "users"
    /\ mergeIdx > Len(gathered)
    /\ mergePc' = "done"
    /\ UNCHANGED <<gathered, all_user_sentiments, merged_hours, merged_users, mergeIdx, aggVars, runVars, batchVars, topVars>>

(***************************************************************************)
(* Claims about the merge, checked under SpecMerge.                        *)
(***************************************************************************)
RECURSIVE HourTotal(_, _)
HourTotal(parts, hour) ==
    IF parts = <<>> THEN 0
    ELSE HourValue(Head(parts).hours, hour) + HourTotal(Tail(parts), hour)

RECURSIVE UserTotal(_, _)
UserTotal(parts, user_id) ==
    IF parts = <<>> THEN 0
    ELSE (IF Has(Head(parts).users, user_id)
          THEN Get(Head(parts).users, user_id).sentiment ELSE 0)
         + UserTotal(Tail(parts), user_id)

AllHourKeys(parts) == UNION {Keys(parts[i].hours) : i \in 1..Len(parts)}

AllUserKeys(parts) == UNION {Keys(parts[i].users) : i \in 1..Len(parts)}

\* C10: after the merge, the global key sets are the unions of the
\* partitions' key sets, and each hour's and each user's global value is the
\* sum of its values over the partition aggregates delivered.
C10_MergeSumsEveryKey ==
    mergePc = "done" =>
        /\ Keys(merged_hours) = AllHourKeys(gathered)
        /\ Keys(merged_users) = AllUserKeys(gathered)
        /\ \A h \in AllHourKeys(gathered) :
               Get(merged_hours, h) = HourTotal(gathered, h)
        /\ \A u \in AllUserKeys(gathered) :
               Get(merged_users, u).sentiment = UserTotal(gathered, u)

\* C10 witness: a finished merge of three partitions in which a user occurs
\* in all three, an hour in more than one, and a user in only one.
C10_Witness ==
    /\ mergePc = "done"
    /\ Len(gathered) = 3
    /\ \E u \in AllUserKeys(gathered) :
           Cardinality({i \in 1..3 : Has(gathered[i].users, u)}) = 3
    /\ \E h \in AllHourKeys(gathered) :
           Cardinality({i \in 1..3 : Has(gathered[i].hours, h)}) >= 2
    /\ \E u \in AllUserKeys(gathered) :
           Cardinality({i \in 1..3 : Has(gathered[i].users, u)}) = 1

\* The username the first partition holding user_id delivered for it.
FirstUsername(parts, user_id) ==
    Get(parts[FirstHolder(UserDicts(parts), user_id)].users, user_id).username

\* C11: in every state of the merge, each user id of the global aggregate
\* carries the username of the first partition, in rank order, that holds the
\* id; a later partition never replaces it, even when it is empty.
C11_MergeKeepsFirstUsername ==
    \A u \in Keys(merged_users) :
        Get(merged_users, u).username = FirstUsername(gathered, u)

\* C11 witness: a finished merge in which the first partition holding a user
\* has an empty username for it and a later partition a non-empty one.
C11_Witness ==
    /\ mergePc = "done"
    /\ \E u \in Keys(merged_users) :
           /\ FirstUsername(gathered, u) = ""
           /\ \E i \in 1..Len(gathered) :
                  /\ Has(gathered[i].users, u)
                  /\ Get(gathered[i].users, u).username # ""

(***************************************************************************)
(* The input file.  A line is one JSON value followed by "\n"; the model   *)
(* gives every token ijson reports one byte, so a line of k events is k+1  *)
(* bytes long.  Events are the (prefix, event, value) triples of           *)
(* ijson.parse: a map_key carries the prefix of the map it is in, a value  *)
(* the path of its key ('created_at', 'account.id'), and only the braces   *)
(* and keys of the top-level object, or a top-level scalar, have prefix ''.*)
(***************************************************************************)
Ev(prefix, event, key) == [prefix |-> prefix, event |-> event, key |-> key]

Newline == Ev("", "newline", "")

FieldEvents(name, present, event) ==
    IF present THEN << Ev("", "map_key", name), Ev(name, event, "") >> ELSE <<>>

AccountEvents(acct) ==
    CASE acct.st = "absent" -> <<>>
      [] acct.st = "other" -> << Ev("", "map_key", "account"), Ev("account", "string", "") >>
      [] acct.st = "map" ->
            << Ev("", "map_key", "account"), Ev("account", "start_map", "") >>
            \o (IF acct.id # ""
                THEN << Ev("account", "map_key", "id"), Ev("account.id", "string", "") >>
                ELSE <<>>)
            \o << Ev("account", "map_key", "username"),
                  Ev("account.username", "string", ""),
                  Ev("account", "end_map", "") >>

LineEvents(line) ==
    IF line.kind # "dict" THEN << Ev("", "string", "") >>
    ELSE << Ev("", "start_map", "") >>
         \o FieldEvents("created_at", line.ca.st # "absent",
                        IF line.ca.st = "str" THEN "string" ELSE "number")
         \o FieldEvents("sentiment", line.sent.st # "absent",
                        IF line.sent.st = "num" THEN "number" ELSE "string")
         \o AccountEvents(line.acct)
         \o << Ev("", "end_map", "") >>

\* The bytes of the file: each token tagged with the line it belongs to.
RECURSIVE BytesFrom(_, _)
BytesFrom(lines, i) ==
    IF i > Len(lines) THEN <<>>
    ELSE [j \in 1..Len(LineEvents(lines[i])) |->
             [ev |-> LineEvents(lines[i])[j], line |-> i]]
         \o << [ev |-> Newline, line |-> i] >>
         \o BytesFrom(lines, i + 1)

FileBytes == BytesFrom(file, 1)

\* line 95: os.path.getsize
file_size == Len(FileBytes)

\* line 110: f.readline() from `pos`: past the next "\n", or to end of file.
RECURSIVE AfterReadline(_, _)
AfterReadline(bytes, pos) ==
    IF pos >= Len(bytes) THEN Len(bytes)
    ELSE IF bytes[pos + 1].ev = Newline THEN pos + 1
    ELSE AfterReadline(bytes, pos + 1)

(***************************************************************************)
(* ijson.parse(f) (line 112), called without multiple_values.  Each call   *)
(* for the next event that finds none pending reads buf_size bytes and     *)
(* parses them all: a token after a complete top-level value raises        *)
(* JSONError and the events of that read are lost; end of file before any  *)
(* complete value raises IncompleteJSONError.  f.tell() is the end of the  *)
(* last read, not the place of the event.                                  *)
(***************************************************************************)
ClosesTopLevel(ev) ==
    ev.prefix = "" /\ ev.event \in {"end_map", "string", "number"}

RECURSIVE ScanTokens(_, _)
ScanTokens(bytes, top_done) ==
    IF bytes = <<>> THEN [raise |-> FALSE, top_done |-> top_done]
    ELSE IF Head(bytes).ev = Newline THEN ScanTokens(Tail(bytes), top_done)
    ELSE IF top_done THEN [raise |-> TRUE, top_done |-> TRUE]
    ELSE ScanTokens(Tail(bytes), ClosesTopLevel(Head(bytes).ev))

Tokens(bytes) == SelectSeq(bytes, LAMBDA b : b.ev # Newline)

RECURSIVE ParserRead(_, _, _)
ParserRead(all, tell, top_done) ==
    IF tell >= Len(all)
    THEN [outcome |-> IF top_done THEN "stop" ELSE "IncompleteJSONError",
          tell |-> tell, pending |-> <<>>, top_done |-> top_done]
    ELSE LET upto == IF tell + BufSize < Len(all) THEN tell + BufSize ELSE Len(all)
             bytes == SubSeq(all, tell + 1, upto)
             scan == ScanTokens(bytes, top_done)
         IN  IF scan.raise
             THEN [outcome |-> "JSONError", tell |-> upto, pending |-> <<>>,
                   top_done |-> TRUE]
             ELSE IF Tokens(bytes) = <<>> THEN ParserRead(all, upto, scan.top_done)
             ELSE [outcome |-> "event", tell |-> upto, pending |-> Tokens(bytes),
                   top_done |-> scan.top_done]

ParserNext(w) ==
    IF w.pending # <<>>
    THEN [outcome |-> "event", tell |-> w.tell, pending |-> w.pending,
          top_done |-> w.top_done]
    ELSE ParserRead(FileBytes, w.tell, w.top_done)

(***************************************************************************)
(* _split_and_process (lines 90-138) at one rank.                          *)
(***************************************************************************)
NoEnd == 0 - 1
Unbound == "<unbound>"
None == "<None>"

NewRank ==
    [pc |-> "start", start_pos |-> 0, end_pos |-> NoEnd,
     tell |-> 0, pending |-> <<>>, top_done |-> FALSE,
     chunk |-> <<>>, current_item |-> EmptyItem, current_key |-> Unbound,
     agg |-> EmptyAgg, err |-> "", all_hour_sentiments |-> <<>>,
     \* history: the line each item of chunk came from, the lines whose items
     \* were passed to _process_chunk, the lines whose opening brace was taken
     chunk_src |-> <<>>, handed |-> <<>>, begun |-> {}]

\* lines 95-100
chunk_size == file_size \div size

StartPos(rank) == rank * chunk_size

EndPos(rank) == IF rank < size - 1 THEN (rank + 1) * chunk_size ELSE NoEnd

\* lines 104-112
open_and_seek(w, rank) ==
    [w EXCEPT !.pc = "parse",
              !.start_pos = StartPos(rank),
              !.end_pos = EndPos(rank),
              !.tell = IF rank > 0 THEN AfterReadline(FileBytes, StartPos(rank))
                       ELSE StartPos(rank)]

\* line 126, current_item[current_key] = value for a string value
SetField(item, key) ==
    CASE key = "created_at" -> [item EXCEPT !.ca = BadCreatedAt]
      [] key = "sentiment" -> [item EXCEPT !.sent = BadSentiment]
      [] key = "account" -> [item EXCEPT !.acct = BadAccount]
      [] OTHER -> item

\* lines 115-117 without the call of line 116: the full batch is dropped.
flush_clear_only(w, window) ==
    IF Len(w.chunk) >= window
    THEN [w EXCEPT !.chunk = <<>>, !.chunk_src = <<>>]
    ELSE w

\* lines 115-117 for a batch window of `window` records
flush_when(w, window) ==
    IF Len(w.chunk) >= window
    THEN [w EXCEPT !.agg = process_chunk(w.agg, w.chunk),
                   !.handed = w.handed \o w.chunk_src,
                   !.chunk = <<>>, !.chunk_src = <<>>]
    ELSE w

\* lines 115-117
flush_full(w) == flush_when(w, BatchSize)

\* lines 120-130
collect(w, b) ==
    LET ev == b.ev IN
    CASE ev.prefix = "" /\ ev.event = "start_map" ->
            [w EXCEPT !.current_item = EmptyItem, !.begun = @ \cup {b.line}]
      [] ev.prefix = "" /\ ev.event = "map_key" ->
            [w EXCEPT !.current_key = ev.key]
      [] ev.prefix = "" /\ ev.event = "string" ->
            IF w.current_key = Unbound THEN [w EXCEPT !.err = "UnboundLocalError"]
            ELSE IF w.current_key # None
            THEN [w EXCEPT !.current_item = SetField(w.current_item, w.current_key)]
            ELSE w
      [] ev.prefix = "" /\ ev.event = "end_map" ->
            [w EXCEPT !.chunk = Append(w.chunk, w.current_item),
                      !.chunk_src = Append(w.chunk_src, b.line),
                      !.current_item = EmptyItem,
                      !.current_key = None]
      [] OTHER -> w

\* line 133
ReachedEnd(w) == w.end_pos # NoEnd /\ w.end_pos # 0 /\ w.tell >= w.end_pos

\* One pass of the loop of line 113: the parser's next event, or its end.
loop_step(w) ==
    LET p == ParserNext(w)
        read == [w EXCEPT !.tell = p.tell, !.top_done = p.top_done,
                          !.pending = IF p.pending = <<>> THEN <<>> ELSE Tail(p.pending)]
    IN  IF p.outcome = "stop" THEN [read EXCEPT !.pc = "tail"]
        ELSE IF p.outcome # "event" THEN [read EXCEPT !.pc = "raised", !.err = p.outcome]
        ELSE LET flushed == flush_full(read)
                 got == IF flushed.agg.err # ""
                        THEN [flushed EXCEPT !.err = flushed.agg.err]
                        ELSE collect(flushed, Head(p.pending))
             IN  IF got.err # "" THEN [got EXCEPT !.pc = "raised"]
                 ELSE IF ReachedEnd(got) THEN [got EXCEPT !.pc = "tail", !.pending = <<>>]
                 ELSE got

\* lines 136-138
final_flush(w) ==
    LET a == IF w.chunk # <<>> THEN process_chunk(w.agg, w.chunk) ELSE w.agg
    IN  [w EXCEPT !.agg = a,
                  !.handed = w.handed \o w.chunk_src,
                  !.err = a.err,
                  !.pc = IF a.err # "" THEN "raised" ELSE "gather_hours"]

(***************************************************************************)
(* SpecBatch: the batching of lines 114-117, 128 and 136-138 with a window *)
(* scaled from 10000 to 1..MaxWindow, driven with the records of           *)
(* batch_in as the objects the loop completes.  Every event of the loop    *)
(* runs the test of line 115 first; an end_map then appends the record     *)
(* (line 128).  The loop may end after any event (line 134, or the parser  *)
(* exhausted) and lines 136-138 flush what is left.  batch_log is the list *)
(* of records appended so far (history).                                   *)
(***************************************************************************)
BatchPool ==
    { Post(Stamp(1, 0, 15), Num(3), Account("u1", "alice")),
      Post(Stamp(1, 0, 45), Num(0 - 4), Account("u1", "")),
      Post(Stamp(1, 1, 5), Num(6), Account("u2", "bob")),
      Post(Stamp(1, 1, 40), BadSentiment, Account("u2", "bob")),
      EmptyItem }

BatchInput ==
    /\ batch_in \in SeqsUpTo(BatchPool, MaxItems)
    /\ batch_window \in 1..MaxWindow
    /\ batch_w = [NewRank EXCEPT !.pc = "parse"]
    /\ batch_log = <<>>

\* The test of line 115 at the head of an iteration; an exception out of
\* _process_chunk leaves the loop.
BatchFlushed ==
    LET w == flush_when(batch_w, batch_window)
    IN  IF w.agg.err # "" THEN [w EXCEPT !.pc = "raised", !.err = w.agg.err] ELSE w

\* lines 115-117 at an event that completes no record
BatchOtherEvent ==
    /\ batch_w.pc = "parse"
    /\ Len(batch_w.chunk) >= batch_window
    /\ batch_w' = BatchFlushed
    /\ UNCHANGED <<batch_in, batch_window, batch_log, aggVars, mergeVars, runVars, topVars>>

\* lines 115-117 and 127-130 at the end_map of the next record
BatchEndMap ==
    /\ batch_w.pc = "parse"
    /\ batch_in # <<>>
    /\ LET w == BatchFlushed
       IN  IF w.pc = "raised"
           THEN batch_w' = w /\ UNCHANGED <<batch_in, batch_log>>
           ELSE /\ batch_w' = [w EXCEPT !.chunk = Append(w.chunk, Head(batch_in)),
                                        !.chunk_src = Append(w.chunk_src, Len(batch_log) + 1)]
                /\ batch_log' = Append(batch_log, Head(batch_in))
                /\ batch_in' = Tail(batch_in)
    /\ UNCHANGED <<batch_window, aggVars, mergeVars, runVars, topVars>>

\* line 134, or the parser is exhausted: the loop is left
BatchLoopEnds ==
    /\ batch_w.pc = "parse"
    /\ batch_w' = [batch_w EXCEPT !.pc = "tail"]
    /\ UNCHANGED <<batch_in, batch_window, batch_log, aggVars, mergeVars, runVars, topVars>>

\* lines 136-138
BatchFinalFlush ==
    /\ batch_w.pc = "tail"
    /\ batch_w' = final_flush(batch_w)
    /\ UNCHANGED <<batch_in, batch_window, batch_log, aggVars, mergeVars, runVars, topVars>>

\* The pass is over: lines 136-138 are done, or an exception left it.
BatchOver == batch_w.pc \in {"gather_hours", "raised"}

\* C19: when the pass is over, wherever the loop was left, the hour and user
\* aggregates are those of _process_chunk applied once to the records the
\* loop completed, in order: the window has no effect.
C19_BatchingHasNoEffect ==
    BatchOver =>
        /\ batch_w.agg.hours = process_chunk(EmptyAgg, batch_log).hours
        /\ batch_w.agg.users = process_chunk(EmptyAgg, batch_log).users

\* C19 witness: a pass over three records with a window of two that flushed
\* a full batch inside the loop and the remaining record at the end.
C19_Witness ==
    /\ batch_w.pc = "gather_hours"
    /\ batch_window = 2
    /\ Len(batch_log) = 3
    /\ batch_w.agg.users # EmptyDict
    /\ batch_w.handed = <<1, 2, 3>>

(***************************************************************************)
(* Spec: analyze() (lines 171-201) on ranks 0..size-1 over one file.       *)
(* Every rank runs _split_and_process and then _gather_results.  The first *)
(* gather (line 148) is a collective: rank 0 leaves it once every other    *)
(* rank has contributed.  The second (line 149) pickles                    *)
(* self.user_sentiment, a defaultdict whose default_factory is the lambda  *)
(* of line 33, and pickle raises PicklingError for it at every rank, so    *)
(* control never reaches line 151.                                         *)
(***************************************************************************)
Scenario ==
    << Post(Stamp(1, 0, 15), Num(3), Account("u1", "alice")),
       Post(Stamp(1, 0, 45), Num(0 - 4), Account("u1", "")),
       Post(Stamp(1, 1, 5), Num(6), Account("u2", "bob")) >>

LinePool ==
    { Post(Stamp(1, 0, 15), Num(3), Account("u1", "alice")),
      Post(Stamp(1, 1, 30), NoSentiment, Account("u2", "bob")),
      Post(BadCreatedAt, NoSentiment, NoAccount),
      BareValue }

Files == SeqsUpTo(LinePool, MaxLines) \cup {Scenario}

Ranks == 0..(size - 1)

\* A one-record file run on more ranks than it has bytes, so that
\* chunk_size is 0 (line 96).
ShortFile == << Post(BadCreatedAt, NoSentiment, NoAccount) >>

CrowdSize == Len(BytesFrom(ShortFile, 1)) + 1

RunInput ==
    /\ \/ file \in Files /\ size \in 1..MaxWorkers
       \/ file = ShortFile /\ size = CrowdSize
    /\ ranks = [r \in 0..(size - 1) |-> NewRank]
    /\ hours_sent = {}

\* lines 95-112
Start(r) ==
    /\ ranks[r].pc = "start"
    /\ ranks' = [ranks EXCEPT ![r] = open_and_seek(@, r)]
    /\ UNCHANGED <<file, size, hours_sent, aggVars, mergeVars, batchVars, topVars>>

\* lines 113-134: an event is taken and the loop goes on
ParseEvent(r) ==
    /\ ranks[r].pc = "parse"
    /\ LET w == loop_step(ranks[r])
       IN  /\ w.pc = "parse"
           /\ ranks' = [ranks EXCEPT ![r] = w]
    /\ UNCHANGED <<file, size, hours_sent, aggVars, mergeVars, batchVars, topVars>>

\* lines 113-134: an event is taken and line 134 leaves the loop
ParseBreak(r) ==
    /\ ranks[r].pc = "parse"
    /\ LET w == loop_step(ranks[r])
       IN  /\ w.pc = "tail"
           /\ ParserNext(ranks[r]).outcome = "event"
           /\ ranks' = [ranks EXCEPT ![r] = w]
    /\ UNCHANGED <<file, size, hours_sent, aggVars, mergeVars, batchVars, topVars>>

\* line 113: the parser is exhausted
ParseEnd(r) ==
    /\ ranks[r].pc = "parse"
    /\ ParserNext(ranks[r]).outcome = "stop"
    /\ ranks' = [ranks EXCEPT ![r] = loop_step(@)]
    /\ UNCHANGED <<file, size, hours_sent, aggVars, mergeVars, batchVars, topVars>>

\* lines 113-130: an exception leaves _split_and_process and analyze
ParseRaise(r) ==
    /\ ranks[r].pc = "parse"
    /\ LET w == loop_step(ranks[r])
       IN  /\ w.pc = "raised"
           /\ ranks' = [ranks EXCEPT ![r] = w]
    /\ UNCHANGED <<file, size, hours_sent, aggVars, mergeVars, batchVars, topVars>>

\* lines 136-138
FinalFlush(r) ==
    /\ ranks[r].pc = "tail"
    /\ ranks' = [ranks EXCEPT ![r] = final_flush(@)]
    /\ UNCHANGED <<file, size, hours_sent, aggVars, mergeVars, batchVars, topVars>>

\* line 148 at a rank other than 0
GatherHoursSend(r) ==
    /\ r # 0
    /\ ranks[r].pc = "gather_hours"
    /\ hours_sent' = hours_sent \cup {[rank |-> r, hours |-> ranks[r].agg.hours]}
    /\ ranks' = [ranks EXCEPT ![r].pc = "gather_users"]
    /\ UNCHANGED <<file, size, aggVars, mergeVars, batchVars, topVars>>

\* Rank r's contribution to the gather of line 148 has reached rank 0.
Delivered(r) == \E m \in hours_sent : m.rank = r

\* What rank 0 holds of rank r's contribution (nothing before it arrives).
SentHours(r) ==
    IF Delivered(r) THEN (CHOOSE m \in hours_sent : m.rank = r).hours ELSE EmptyDict

\* A gather that returns at rank 0 on the first contribution received.
GatherFirstArrival == size = 1 \/ hours_sent # {}

\* A gather that passes over the ranks an exception has ended.
GatherOfSurvivors ==
    \A r \in Ranks \ {0} : Delivered(r) \/ ranks[r].pc = "raised"

\* line 148: comm.gather is collective; it returns at the root once every
\* rank of the communicator has contributed.
GatherComplete == \A r \in Ranks \ {0} : Delivered(r)

\* line 148 at rank 0
GatherHoursRoot ==
    /\ ranks[0].pc = "gather_hours"
    /\ GatherComplete
    /\ ranks' = [ranks EXCEPT
                   ![0].pc = "gather_users",
                   ![0].all_hour_sentiments =
                       [i \in 1..size |->
                           IF i = 1 THEN ranks[0].agg.hours ELSE SentHours(i - 1)]]
    /\ UNCHANGED <<file, size, hours_sent, aggVars, mergeVars, batchVars, topVars>>

\* line 149
GatherUsersRaise(r) ==
    /\ ranks[r].pc = "gather_users"
    /\ ranks' = [ranks EXCEPT ![r].pc = "raised", ![r].err = "PicklingError"]
    /\ UNCHANGED <<file, size, hours_sent, aggVars, mergeVars, batchVars, topVars>>

(***************************************************************************)
(* analyze, lines 186-193: the four top-k lists.  heapq.nlargest(n, it,    *)
(* key) is sorted(it, key=key, reverse=True)[:n] and heapq.nsmallest is    *)
(* sorted(it, key=key)[:n]; Python's sort is stable, also with reverse, so *)
(* entries with equal keys keep the order of merged.items(), the dict's    *)
(* insertion order.                                                        *)
(***************************************************************************)
\* lines 186-192: the 5 of nlargest(5, ...) and nsmallest(5, ...)
TopK == 5

\* key=lambda x: x[1]
ByValue(items) == [i \in 1..Len(items) |-> [item |-> items[i], score |-> items[i].v]]

\* key=lambda x: x[1]['sentiment']
BySentiment(items) ==
    [i \in 1..Len(items) |-> [item |-> items[i], score |-> items[i].v.sentiment]]

Before(a, b, reverse) == IF reverse THEN a > b ELSE a < b

Without(seq, m) == [i \in 1..(Len(seq) - 1) |-> IF i < m THEN seq[i] ELSE seq[i + 1]]

\* sorted(scored, reverse=reverse): the first of the entries no other one
\* goes before, then the rest sorted.
RECURSIVE sorted(_, _)
sorted(scored, reverse) ==
    IF scored = <<>> THEN <<>>
    ELSE LET m == CHOOSE i \in 1..Len(scored) :
                      /\ \A j \in 1..Len(scored) :
                             ~Before(scored[j].score, scored[i].score, reverse)
                      /\ \A j \in 1..(i - 1) : scored[j].score # scored[i].score
         IN  << scored[m] >> \o sorted(Without(scored, m), reverse)

Take(seq, n) == SubSeq(seq, 1, IF Len(seq) < n THEN Len(seq) ELSE n)

ItemsOf(scored) == [i \in 1..Len(scored) |-> scored[i].item]

\* The first n entries in iteration order, unsorted.
first_n(n, scored) == ItemsOf(Take(scored, n))

nlargest(n, scored) == ItemsOf(Take(sorted(scored, TRUE), n))

nsmallest(n, scored) == ItemsOf(Take(sorted(scored, FALSE), n))

(***************************************************************************)
(* SpecTop: lines 186-193 applied to the global aggregates                 *)
(* _gather_results returns.  The aggregates are those of up to NumKeys     *)
(* records, each with an hour and a user of its own, in every order of     *)
(* insertion and with every choice of sentiments from Scores.              *)
(***************************************************************************)
NumKeys == TopK + MaxExtraKeys

Scores == {0 - 1, 2}

UserIds == << "u1", "u2", "u3", "u4", "u5", "u6", "u7", "u8" >>

HourOf(i) == [day |-> 1, hh |-> i]

Perms(n) == {p \in [1..n -> 1..n] : \A i, j \in 1..n : p[i] = p[j] => i = j}

TopInput ==
    /\ \E n \in 0..NumKeys : \E p \in Perms(n) : \E f \in [1..n -> Scores] :
           /\ merged_hours = [i \in 1..n |-> [k |-> HourOf(p[i]), v |-> f[i]]]
           /\ merged_users =
                  [i \in 1..n |->
                      [k |-> UserIds[p[i]], v |-> [username |-> "", sentiment |-> f[i]]]]
    /\ gathered = <<>> /\ all_user_sentiments = <<>>
    /\ mergePc = "done" /\ mergeIdx = 0
    /\ happiest_hours = <<>> /\ saddest_hours = <<>>
    /\ happiest_users = <<>> /\ saddest_users = <<>>
    /\ selectPc = "select"

\* lines 186-193
SelectTop ==
    /\ selectPc = "select"
    /\ happiest_hours' = nlargest(TopK, ByValue(merged_hours))
    /\ saddest_hours' = nsmallest(TopK, ByValue(merged_hours))
    /\ happiest_users' = nlargest(TopK, BySentiment(merged_users))
    /\ saddest_users' = nsmallest(TopK, BySentiment(merged_users))
    /\ selectPc' = "selected"
    /\ UNCHANGED <<mergeVars, aggVars, runVars, batchVars>>

TopIdle ==
    /\ happiest_hours = <<>> /\ saddest_hours = <<>>
    /\ happiest_users = <<>> /\ saddest_users = <<>>
    /\ selectPc = "idle"

(***************************************************************************)
(* Claims about the top-k lists, checked under SpecTop.                    *)
(***************************************************************************)
HourScore(e) == e.v

UserScore(e) == e.v.sentiment

HourOrd(e) == e.k.hh

UserOrd(e) == CHOOSE i \in 1..Len(UserIds) : UserIds[i] = e.k

Entries(seq) == {seq[i] : i \in 1..Len(seq)}

\* Size, no key twice, order, and nothing left out that is more extreme.
TopListOk(list, items, Score(_), reverse) ==
    /\ Len(list) = (IF Len(items) < TopK THEN Len(items) ELSE TopK)
    /\ Entries(list) \subseteq Entries(items)
    /\ \A i, j \in 1..Len(list) : list[i].k = list[j].k => i = j
    /\ \A i, j \in 1..Len(list) :
           i < j => ~Before(Score(list[j]), Score(list[i]), reverse)
    /\ \A e \in Entries(items) \ Entries(list) : \A x \in Entries(list) :
           ~Before(Score(e), Score(x), reverse)

\* C13: each of the four lists has min(5, number of keys) entries, no key
\* twice, is ordered by score (descending for happiest, ascending for
\* saddest), and leaves out no key with a strictly more extreme score.
C13_TopListsAreTheExtremes ==
    selectPc = "selected" =>
        /\ TopListOk(happiest_hours, merged_hours, HourScore, TRUE)
        /\ TopListOk(saddest_hours, merged_hours, HourScore, FALSE)
        /\ TopListOk(happiest_users, merged_users, UserScore, TRUE)
        /\ TopListOk(saddest_users, merged_users, UserScore, FALSE)

\* C13 witness: six keys with both scores among them, so that each list
\* leaves one key out and holds entries of different scores.
C13_Witness ==
    /\ selectPc = "selected"
    /\ Len(merged_hours) = NumKeys
    /\ Len(happiest_hours) = TopK
    /\ happiest_hours[1].v # happiest_hours[TopK].v
    /\ saddest_users[1].v.sentiment # saddest_users[TopK].v.sentiment

\* Among equal scores the smaller key comes first and is the one selected.
TiesByKey(list, items, Score(_), Ord(_)) ==
    /\ \A i, j \in 1..Len(list) :
           (i < j /\ Score(list[i]) = Score(list[j])) => Ord(list[i]) < Ord(list[j])
    /\ \A e \in Entries(items) \ Entries(list) : \A x \in Entries(list) :
           Score(e) = Score(x) => Ord(x) < Ord(e)

\* C14 (as claimed): keys with equal scores are ordered and selected by key
\* ascending in all four lists, whatever the order of insertion.
C14_TiesBrokenByKeyAscending ==
    selectPc = "selected" =>
        /\ TiesByKey(happiest_hours, merged_hours, HourScore, HourOrd)
        /\ TiesByKey(saddest_hours, merged_hours, HourScore, HourOrd)
        /\ TiesByKey(happiest_users, merged_users, UserScore, UserOrd)
        /\ TiesByKey(saddest_users, merged_users, UserScore, UserOrd)

(***************************************************************************)
(* The specifications.  Each drives one part and holds the others idle.    *)
(***************************************************************************)
AggIdle ==
    /\ aggIn = <<>> /\ agg = EmptyAgg /\ aggPrev = EmptyAgg /\ aggLog = <<>>

MergeIdle ==
    /\ gathered = <<>> /\ all_user_sentiments = <<>>
    /\ merged_hours = EmptyDict /\ merged_users = EmptyDict
    /\ mergePc = "idle" /\ mergeIdx = 0

RunIdle ==
    /\ file = <<>> /\ size = 1 /\ ranks = <<>> /\ hours_sent = {}

BatchIdle ==
    /\ batch_in = <<>> /\ batch_window = 1 /\ batch_w = NewRank /\ batch_log = <<>>

vars == <<aggVars, mergeVars, runVars, batchVars, topVars>>

InitBatch == BatchInput /\ AggIdle /\ MergeIdle /\ RunIdle /\ TopIdle

NextBatch == BatchOtherEvent \/ BatchEndMap \/ BatchLoopEnds \/ BatchFinalFlush

SpecBatch == InitBatch /\ [][NextBatch]_vars

InitTop == TopInput /\ AggIdle /\ RunIdle /\ BatchIdle

NextTop == SelectTop

SpecTop == InitTop /\ [][NextTop]_vars

InitAgg == AggInput /\ MergeIdle /\ RunIdle /\ BatchIdle /\ TopIdle

NextAgg == AggStep

SpecAgg == InitAgg /\ [][NextAgg]_vars

InitMerge == MergeInput /\ AggIdle /\ RunIdle /\ BatchIdle /\ TopIdle

NextMerge == MergeHoursStep \/ MergeHoursDone \/ MergeUsersStep \/ MergeReturn

SpecMerge == InitMerge /\ [][NextMerge]_vars

Init == RunInput /\ AggIdle /\ MergeIdle /\ BatchIdle /\ TopIdle

Next ==
    \/ \E r \in Ranks : Start(r)
    \/ \E r \in Ranks : ParseEvent(r)
    \/ \E r \in Ranks : ParseBreak(r)
    \/ \E r \in Ranks : ParseEnd(r)
    \/ \E r \in Ranks : ParseRaise(r)
    \/ \E r \in Ranks : FinalFlush(r)
    \/ \E r \in Ranks : GatherHoursSend(r)
    \/ GatherHoursRoot
    \/ \E r \in Ranks : GatherUsersRaise(r)

Spec == Init /\ [][Next]_vars

\* SpecFair: the runs of Spec on at most FairRanks ranks over the files of
\* at most one line and one file of two lines that two ranks both read
\* without an exception, with fairness.  Every rank is a process of its own
\* (mpirun), so a rank that can take a step eventually takes it.
FairRanks == 2

FairFiles ==
    SeqsUpTo(LinePool, 1)
    \cup { << Post(Stamp(1, 1, 30), NoSentiment, Account("u2", "bob")),
              Post(BadCreatedAt, NoSentiment, NoAccount) >> }

RankStep(r) ==
    \/ Start(r) \/ ParseEvent(r) \/ ParseBreak(r) \/ ParseEnd(r) \/ ParseRaise(r)
    \/ FinalFlush(r) \/ GatherHoursSend(r) \/ (r = 0 /\ GatherHoursRoot)
    \/ GatherUsersRaise(r)

Fairness == \A r \in 0..(FairRanks - 1) : WF_vars(r \in Ranks /\ RankStep(r))

InitFair == Init /\ file \in FairFiles /\ size <= FairRanks

SpecFair == InitFair /\ [][Next]_vars /\ Fairness

(***************************************************************************)
(* Claims about a whole run, checked under Spec.                           *)
(***************************************************************************)
\* The rank has left _split_and_process, by return or by an exception.
PassOver(r) == ranks[r].pc \notin {"start", "parse", "tail"}

\* The rank returned from _split_and_process.
PassReturned(r) ==
    ranks[r].pc \in {"gather_hours", "gather_users"}
    \/ (ranks[r].pc = "raised" /\ ranks[r].err = "PicklingError")

\* Rank 0 has left _gather_results; GatherReturned says it did so by the
\* return of line 167.
GatherOver == ranks[0].pc \in {"merged", "raised"} /\ PassReturned(0)

GatherReturned == ranks[0].pc = "merged"

Count(seq, x) == Cardinality({i \in 1..Len(seq) : seq[i] = x})

RECURSIVE HandedBy(_, _)
HandedBy(r, line) ==
    IF r < 0 THEN 0 ELSE Count(ranks[r].handed, line) + HandedBy(r - 1, line)

\* The merge loops applied to what the ranks hold when they reach line 148.
RECURSIVE FoldHours(_, _)
FoldHours(merged, dicts) ==
    IF dicts = <<>> THEN merged
    ELSE FoldHours(MergeHourDict(merged, Head(dicts)), Tail(dicts))

RECURSIVE FoldUsers(_, _)
FoldUsers(merged, dicts) ==
    IF dicts = <<>> THEN merged
    ELSE FoldUsers(MergeUserDict(merged, Head(dicts)), Tail(dicts))

RankHours == [i \in 1..size |-> ranks[i - 1].agg.hours]

RankUsers == [i \in 1..size |-> ranks[i - 1].agg.users]

\* The same file on one worker: rank 0 of 1 reads from 0 to end of file.
RECURSIVE RunPass(_)
RunPass(w) ==
    IF w.pc = "parse" THEN RunPass(loop_step(w))
    ELSE IF w.pc = "tail" THEN final_flush(w)
    ELSE w

OneWorker == RunPass([NewRank EXCEPT !.pc = "parse"])

\* C1 (as claimed): for every file and worker count, the run yields a merged
\* hour map, and it equals the hour map of the run with one worker.
C1_HourSumsIndependentOfWorkerCount ==
    GatherOver =>
        /\ GatherReturned
        /\ OneWorker.pc # "raised"
        /\ DictEq(FoldHours(EmptyDict, RankHours),
                  FoldHours(EmptyDict, <<OneWorker.agg.hours>>))

\* C2 (as claimed): when every rank has finished its pass, every record of
\* the file has been handed to the aggregator by exactly one rank.
C2_EveryRecordHandedOnce ==
    (\A r \in Ranks : PassReturned(r)) =>
        \A i \in 1..Len(file) :
            file[i].kind = "dict" => HandedBy(size - 1, i) = 1

\* C3 (as claimed): for every file and worker count, the run yields merged
\* user sums, and each user's sum equals that of the run with one worker.
C3_UserSumsIndependentOfWorkerCount ==
    GatherOver =>
        /\ GatherReturned
        /\ OneWorker.pc # "raised"
        /\ LET many == FoldUsers(EmptyDict, RankUsers)
               one == FoldUsers(EmptyDict, <<OneWorker.agg.users>>)
           IN  /\ Keys(many) = Keys(one)
               /\ \A u \in Keys(many) : Get(many, u).sentiment = Get(one, u).sentiment

ScenarioHours ==
    << [k |-> [day |-> 1, hh |-> 0], v |-> 0 - 1],
       [k |-> [day |-> 1, hh |-> 1], v |-> 6] >>

ScenarioUsers ==
    << [k |-> "u1", v |-> [username |-> "alice", sentiment |-> 0 - 1]],
       [k |-> "u2", v |-> [username |-> "bob", sentiment |-> 6]] >>

\* C8 (as claimed): the three records of the scenario, read by the streaming
\* reader and aggregated, end as hours {00:00: -0.5, 01:00: 3.0} and users
\* {u1: (alice, -0.5), u2: (bob, 3.0)}.
C8_ScenarioAggregates ==
    (file = Scenario /\ size = 1 /\ PassOver(0)) =>
        /\ DictEq(ranks[0].agg.hours, ScenarioHours)
        /\ DictEq(ranks[0].agg.users, ScenarioUsers)

\* C9 (as claimed): every record the reader emits carries the fields of the
\* object it was read from, account as a nested mapping.
C9_EmittedRecordCarriesFields ==
    \A r \in Ranks :
        \A i \in 1..Len(ranks[r].chunk) :
            ranks[r].chunk[i] = file[ranks[r].chunk_src[i]]

\* Rank 0 has left the gather of line 148, the first statement of
\* _gather_results; the merge (lines 151-165) and the output come after it.
RootPastGather ==
    ranks[0].pc = "gather_users"
    \/ (ranks[0].pc = "raised" /\ ranks[0].err = "PicklingError")

\* The rank's streaming pass ended with an exception.
PassFailed(r) == ranks[r].pc = "raised" /\ ranks[r].err # "PicklingError"

\* C12: rank 0 is past the gather, and so may create the global aggregate,
\* only when every rank has returned from its streaming pass and every other
\* rank's partition aggregate has been delivered to it.
C12_MergeWaitsForEveryWorker ==
    RootPastGather =>
        \A r \in Ranks : PassReturned(r) /\ (r # 0 => Delivered(r))

\* C12 witness: with three ranks, rank 0 has left the gather holding the
\* contributions of the two others.
C12_Witness ==
    /\ size = 3
    /\ RootPastGather
    /\ Len(ranks[0].all_hour_sentiments) = 3
    /\ \A r \in Ranks \ {0} : Delivered(r)

\* C16: while some rank's pass has failed, rank 0 is not past the gather:
\* it has merged nothing and written nothing.
C16_NoOutputAfterWorkerFailure ==
    (\E r \in Ranks : PassFailed(r)) => ~RootPastGather

\* C16 witness: a rank other than 0 failed in its pass while rank 0 finished
\* its own and waits in the gather with every surviving rank's contribution.
C16_Witness ==
    /\ size = 3
    /\ ranks[0].pc = "gather_hours"
    /\ \E r \in Ranks \ {0} : PassFailed(r)
    /\ \E r \in Ranks \ {0} : Delivered(r)
    /\ GatherOfSurvivors

\* C17 (as claimed): rank i starts at i * (file_size div size); a rank that
\* is not the last has end_i = start of rank i+1 and, once an event has been
\* handled with the read position at or past end_i, takes no further event:
\* it is inside the loop with events still buffered only while f.tell() is
\* below end_i.  This includes end_i = 0.
C17_RangesAndStopAtEnd ==
    \A r \in Ranks :
        ranks[r].pc # "start" =>
            /\ ranks[r].start_pos = r * (file_size \div size)
            /\ r < size - 1 =>
                   /\ ranks[r].end_pos = (r + 1) * (file_size \div size)
                   /\ (ranks[r].pc = "parse" /\ ranks[r].pending # <<>>) =>
                          ranks[r].tell < ranks[r].end_pos

\* C18 (as claimed): a rank that returned from its pass has handed to the
\* aggregator every top-level object it had begun to parse; the stop check
\* of line 133 drops no object in progress.
C18_ObjectInProgressIsCompleted ==
    \A r \in Ranks :
        PassReturned(r) =>
            \A i \in ranks[r].begun : Count(ranks[r].handed, i) >= 1

\* C20 (as claimed): under fair scheduling, a run in which no rank's pass
\* fails eventually has rank 0 return from _gather_results with the merged
\* aggregates, from where it writes the output.
C20_RunEventuallyMergesAndWrites ==
    <>((\E r \in Ranks : PassFailed(r)) \/ GatherReturned)

====
